---- MODULE Spec2Model ----
(***************************************************************************)
(* Model of the wine deal scanner (src/scraper.py): the three site         *)
(* extractors, the preference matcher, the ranking and day-scoped          *)
(* deduplication done by main(), the notifier and the run log.             *)
(*                                                                         *)
(* Text is a sequence of one-character strings, so that lowercasing,       *)
(* stripping, substring search and price parsing are computed.  Money is   *)
(* counted in cents (the inputs have at most two decimals), and round()    *)
(* is Python's round-half-to-even on the exact quotient.                   *)
(***************************************************************************)
EXTENDS Integers, Sequences, FiniteSets, TLC

VARIABLES
    today,            \* the calendar day datetime.now() reports (a day number)
    notified_file,    \* content of notified.json
    init_file,        \* history: content of notified.json before the first run
    credentials,      \* GMAIL_USER, GMAIL_PASS, PHONE_SMS: set or empty
    pc,               \* position of the current run of main()
    run,              \* number of the current run
    site_results,     \* main(): site -> [matches, error]
    site_failed,      \* history: sites whose extraction failed in this run
    scraped,          \* history: concatenation of the extractors' outputs, unsorted
    all_deals,        \* main(): all_deals
    already_notified, \* main(): already_notified
    new_deals,        \* main(): new_deals
    sms_results,      \* main(): sms_results
    handed,           \* history: the [day, key] of every deal handed to send_sms
    rehanded,         \* history: those handed to send_sms once more on that day
    last_run,         \* what this run has written to last_run.txt
    timestamp,        \* main(): timestamp
    fn_call,          \* function applied in isolation, with its arguments
    fn_ret            \* and what it returned

vars == <<today, notified_file, init_file, credentials, pc, run, site_results,
          site_failed, scraped, all_deals, already_notified, new_deals,
          sms_results, handed, rehanded, last_run, timestamp, fn_call, fn_ret>>

pipeline_vars == <<today, notified_file, init_file, credentials, pc, run,
                   site_results, site_failed, scraped, all_deals,
                   already_notified, new_deals, sms_results, handed, rehanded, last_run,
                   timestamp>>

(*************************** bounds of the model ***************************)
MaxDay == 2          \* days the clock can show
MaxRuns == 2         \* runs of main() in one behaviour
MaxMatchNameLen == 3 \* length of the names given to matches_preferences
MaxKeyNameLen == 2   \* length of the names given to wine_key

(******************************** text *************************************)
UpperChars == <<"A", "B", "C", "D", "E", "F", "G", "H", "I", "J", "K", "L", "M",
                "N", "O", "P", "Q", "R", "S", "T", "U", "V", "W", "X", "Y", "Z">>
LowerChars == <<"a", "b", "c", "d", "e", "f", "g", "h", "i", "j", "k", "l", "m",
                "n", "o", "p", "q", "r", "s", "t", "u", "v", "w", "x", "y", "z">>
DigitChars == <<"0", "1", "2", "3", "4", "5", "6", "7", "8", "9">>
Whitespace == {" ", "\t", "\n"}

Range(s) == {s[i] : i \in DOMAIN s}

Min(a, b) == IF a <= b THEN a ELSE b

\* str.lower() on one character
LowerChar(c) ==
    IF \E i \in DOMAIN UpperChars : UpperChars[i] = c
    THEN LowerChars[CHOOSE i \in DOMAIN UpperChars : UpperChars[i] = c]
    ELSE c

\* str.lower()
Lower(s) == [i \in DOMAIN s |-> LowerChar(s[i])]

\* str.strip(): drop leading and trailing whitespace
Strip(s) ==
    LET keep == {i \in DOMAIN s : s[i] \notin Whitespace}
    IN  IF keep = {} THEN <<>>
        ELSE LET lo == CHOOSE i \in keep : \A j \in keep : i <= j
                 hi == CHOOSE i \in keep : \A j \in keep : j <= i
             IN  SubSeq(s, lo, hi)

\* `sub in s` on strings
Contains(sub, s) ==
    \E i \in 0..(Len(s) - Len(sub)) : SubSeq(s, i + 1, i + Len(sub)) = sub

\* all sequences over S of length at most n
SeqsUpTo(S, n) == UNION {[1..k -> S] : k \in 0..n}

(****************************** numbers ************************************)
\* Python round(n / d) for d > 0: nearest integer, halves to the even one
Round(n, d) ==
    LET q == n \div d
        r == n % d
    IN  IF 2 * r < d THEN q
        ELSE IF 2 * r > d THEN q + 1
        ELSE IF q % 2 = 0 THEN q ELSE q + 1

\* round((1 - price / original_price) * 100), prices in cents
DiscountOf(price, original_price) ==
    Round((original_price - price) * 100, original_price)

DigitVal(c) == (CHOOSE i \in DOMAIN DigitChars : DigitChars[i] = c) - 1

RECURSIVE DigitsVal(_)
DigitsVal(ds) ==
    IF ds = <<>> THEN 0
    ELSE DigitsVal(SubSeq(ds, 1, Len(ds) - 1)) * 10 + DigitVal(ds[Len(ds)])

\* re.sub(r"[^\d.]", "", text)
CleanNumber(text) ==
    SelectSeq(text, LAMBDA c : c \in Range(DigitChars) \/ c = ".")

\* float(cleaned or 0), in cents; ok is FALSE where float() raises ValueError
ParseFloat(cleaned) ==
    LET dots == {i \in DOMAIN cleaned : cleaned[i] = "."}
    IN  IF cleaned = <<>> THEN [ok |-> TRUE, cents |-> 0]
        ELSE IF Cardinality(dots) > 1 \/ Len(cleaned) = Cardinality(dots)
        THEN [ok |-> FALSE, cents |-> 0]
        ELSE IF dots = {} THEN [ok |-> TRUE, cents |-> DigitsVal(cleaned) * 100]
        ELSE LET p == CHOOSE i \in dots : TRUE
                 whole == SubSeq(cleaned, 1, p - 1)
                 frac == SubSeq(cleaned, p + 1, Min(Len(cleaned), p + 2))
                 padded == IF Len(frac) = 0 THEN <<"0", "0">>
                           ELSE IF Len(frac) = 1 THEN frac \o <<"0">> ELSE frac
             IN  [ok |-> TRUE, cents |-> DigitsVal(whole) * 100 + DigitsVal(padded)]

(***************************** preferences *********************************)
keywords ==
    {   <<"c", "a", "b", "e", "r", "n", "e", "t", " ", "s", "a", "u", "v", "i", "g", "n", "o", "n">>,
        <<"c", "a", "b", " ", "s", "a", "v">>,
        <<"c", "a", "b", "e", "r", "n", "e", "t">>,
        <<"c", "h", "i", "a", "n", "t", "i">>,
        <<"s", "a", "n", "g", "i", "o", "v", "e", "s", "e">>,
        <<"s", "y", "r", "a", "h">>,
        <<"s", "h", "i", "r", "a", "z">>,
        <<"g", "u", "i", "d", "a", "l", "b", "e", "r", "t", "o">>,
        <<"z", "i", "n", "f", "a", "n", "d", "e", "l">>,
        <<"z", "i", "n">>,
        <<"m", "a", "l", "b", "e", "c">>,
        <<"p", "e", "t", "i", "t", "e", " ", "s", "i", "r", "a", "h">> }
min_discount_pct == 30
max_price == 60
min_score == 92

\* the optional `scores` argument: None, or a list of [score, source]
NoneScores == [isNone |-> TRUE, items |-> <<>>]
ListScores(items) == [isNone |-> FALSE, items |-> items]
\* Python truthiness of the argument: None and [] are both false
Truthy(scores) == ~scores.isNone /\ scores.items # <<>>
\* `scores if scores else None`
ScoresOrNone(items) == IF items # <<>> THEN ListScores(items) ELSE NoneScores

matches_preferences_any_price(name, price, original_price, scores) ==
    LET name_lower == Lower(name)
    IN  IF ~\E kw \in keywords : Contains(kw, name_lower) THEN FALSE
        ELSE IF original_price # 0 /\ original_price > 0
                /\ DiscountOf(price, original_price) < min_discount_pct THEN FALSE
        ELSE IF Truthy(scores)
                /\ ~\E i \in DOMAIN scores.items : scores.items[i].score >= min_score
             THEN FALSE
        ELSE TRUE

matches_preferences(name, price, original_price, scores) ==
    LET name_lower == Lower(name)
    IN  IF ~\E kw \in keywords : Contains(kw, name_lower) THEN FALSE
        ELSE IF price > max_price * 100 THEN FALSE
        ELSE IF original_price # 0 /\ original_price > 0
                /\ DiscountOf(price, original_price) < min_discount_pct THEN FALSE
        ELSE IF Truthy(scores)
                /\ ~\E i \in DOMAIN scores.items : scores.items[i].score >= min_score
             THEN FALSE
        ELSE TRUE

(******************************* dedup key *********************************)
SourceWTSO == <<"W", "T", "S", "O">>
SourceLastBottle == <<"L", "a", "s", "t", " ", "B", "o", "t", "t", "l", "e">>
SourceWineSpies == <<"W", "i", "n", "e", " ", "S", "p", "i", "e", "s">>
Sources == {SourceWTSO, SourceLastBottle, SourceWineSpies}

wine_key_unstripped(deal) == Lower(deal.name) \o <<"|">> \o Lower(deal.source)

wine_key(deal) == Strip(Lower(deal.name)) \o <<"|">> \o Lower(deal.source)

(***************************** page elements *******************************)
\* what soup.select_one() found: a tag with its text, or None
NoEl == [present |-> FALSE, text |-> <<>>]
El(text) == [present |-> TRUE, text |-> text]

\* el.get_text(strip=True)
get_text(el) == Strip(el.text)

\* what a scraper hands back: its deals, and the error it printed ("" if none)
\* raised is whether an exception left the scraper: each scraper's own
\* `except Exception` catches them all
Returned(deals, error) == [deals |-> deals, error |-> error, raised |-> FALSE]

ScoreInRange(v) == 80 <= v /\ v <= 100

NewDeal(name, price, orig_price, discount, url, source, scores) ==
    [name |-> name, price |-> price, original |-> orig_price, discount |-> discount,
     url |-> url, source |-> source, scores |-> scores]

(******************************** WTSO *************************************)
\* score_abbrevs.get(abbrev, "unknown")
score_abbrevs(abbrev) ==
    CASE abbrev = "WA" -> "Wine Advocate"
      [] abbrev = "WS" -> "Wine Spectator"
      [] abbrev = "JD" -> "Jeb Dunnuck"
      [] abbrev = "AG" -> "Antonio Galloni"
      [] abbrev = "RP" -> "Wine Advocate"
      [] abbrev = "JS" -> "James Suckling"
      [] abbrev = "JH" -> "James Halliday"
      [] abbrev = "V" -> "Vinous"
      [] OTHER -> "unknown"

\* a .show_description text after re.match: the groups, or no match;
\* the score is the high end of a range
WtsoScoreVal(m) == IF m.has_high THEN m.high ELSE m.low

WtsoScores(show_description) ==
    LET hits == SelectSeq(show_description,
                          LAMBDA m : m.matched /\ ScoreInRange(WtsoScoreVal(m)))
    IN  [i \in DOMAIN hits |->
            [score |-> WtsoScoreVal(hits[i]), source |-> score_abbrevs(hits[i].abbrev)]]

scrape_wtso(page) ==
    IF page.fetch # "ok" THEN Returned(<<>>, page.fetch)
    ELSE IF ~page.offer THEN Returned(<<>>, "")
    ELSE IF ~page.name_el.present \/ ~page.price_el.present THEN Returned(<<>>, "")
    ELSE
      LET name == get_text(page.name_el)
          p == ParseFloat(CleanNumber(get_text(page.price_el)))
          o == IF page.orig_el.present
               THEN ParseFloat(CleanNumber(get_text(page.orig_el)))
               ELSE [ok |-> TRUE, cents |-> 0]
      IN  IF ~p.ok \/ ~o.ok THEN Returned(<<>>, "ValueError")
          ELSE
            LET price == p.cents
                orig_price == o.cents
                discount == IF orig_price > 0 THEN DiscountOf(price, orig_price) ELSE 0
                scores == WtsoScores(page.show_description)
            IN  IF matches_preferences(name, price, orig_price, ScoresOrNone(scores))
                THEN Returned(<<NewDeal(name, price, orig_price, discount,
                                        "https://www.wtso.com", SourceWTSO, scores)>>, "")
                ELSE Returned(<<>>, "")

(***************************** Last Bottle *********************************)
RETAIL == <<"R", "E", "T", "A", "I", "L">>
LAST_BOTTLE == <<"L", "A", "S", "T", " ", "B", "O", "T", "T", "L", "E">>

\* text.split(sep)[0]: the text before the first occurrence of sep
SplitFirst(text, sep) ==
    LET at == {i \in 0..(Len(text) - Len(sep)) : SubSeq(text, i + 1, i + Len(sep)) = sep}
    IN  IF at = {} THEN text
        ELSE SubSeq(text, 1, CHOOSE i \in at : \A j \in at : i <= j)

\* the first .product__price text that contains the label, if any
FirstWith(price_divs, label) ==
    LET at == {i \in DOMAIN price_divs : Contains(label, Strip(price_divs[i]))}
    IN  IF at = {} THEN NoEl
        ELSE El(price_divs[CHOOSE i \in at : \A j \in at : i <= j])

\* the amount in front of the label; keep is the value kept when there is none
LabelledAmount(price_divs, label, keep) ==
    LET div == FirstWith(price_divs, label)
        val == CleanNumber(SplitFirst(get_text(div), label))
    IN  IF ~div.present \/ val = <<>> THEN [ok |-> TRUE, cents |-> keep]
        ELSE ParseFloat(val)

\* the publication named in a .product__review text
LastBottleSource(review_text) ==
    IF "wine spectator" \in review_text \/ "ws " \in review_text THEN "Wine Spectator"
    ELSE IF "wine advocate" \in review_text \/ "robert parker" \in review_text
         THEN "Wine Advocate"
    ELSE IF "vinous" \in review_text \/ "galloni" \in review_text THEN "Vinous"
    ELSE IF "jeb dunnuck" \in review_text THEN "Jeb Dunnuck"
    ELSE IF "james suckling" \in review_text THEN "James Suckling"
    ELSE IF "wine enthusiast" \in review_text THEN "Wine Enthusiast"
    ELSE "unknown"

\* a review: whether it has a score element, the number re.search found in
\* it (has_number FALSE if none), and the phrases its lowercased text contains
LastBottleScores(reviews) ==
    LET hits == SelectSeq(reviews,
                          LAMBDA r : r.score_el /\ r.has_number /\ ScoreInRange(r.number))
    IN  [i \in DOMAIN hits |->
            [score |-> hits[i].number, source |-> LastBottleSource(hits[i].review_text)]]

\* pjson.kind: "absent" (no #ProductJSON), "invalid" (json.loads raises, caught),
\* "nonrecord" (valid JSON without .get, AttributeError), "ok" (title, variants)
scrape_lastbottle(page) ==
    IF page.fetch # "ok" THEN Returned(<<>>, page.fetch)
    ELSE IF page.pjson.kind = "nonrecord" THEN Returned(<<>>, "AttributeError")
    ELSE
      LET name_h1 == IF page.name_el.present THEN get_text(page.name_el) ELSE <<>>
          name == IF name_h1 = <<>> /\ page.pjson.kind = "ok"
                  THEN page.pjson.title ELSE name_h1
          price_json == IF page.pjson.kind = "ok" /\ page.pjson.variants # <<>>
                        THEN page.pjson.variants[1] ELSE 0
      IN  IF name = <<>> THEN Returned(<<>>, "")
          ELSE
            LET o == LabelledAmount(page.price_divs, RETAIL, 0)
                p == IF price_json = 0
                     THEN LabelledAmount(page.price_divs, LAST_BOTTLE, price_json)
                     ELSE [ok |-> TRUE, cents |-> price_json]
            IN  IF ~o.ok \/ ~p.ok THEN Returned(<<>>, "ValueError")
                ELSE
                  LET price == p.cents
                      orig_price == o.cents
                      discount == IF orig_price > 0 /\ price > 0
                                  THEN DiscountOf(price, orig_price) ELSE 0
                      scores == LastBottleScores(page.reviews)
                  IN  IF matches_preferences(name, price, orig_price, ScoresOrNone(scores))
                      THEN Returned(<<NewDeal(name, price, orig_price, discount,
                                              "https://lastbottlewines.com",
                                              SourceLastBottle, scores)>>, "")
                      ELSE Returned(<<>>, "")

(****************************** Wine Spies *********************************)
\* source_map.get(abbrev, "unknown")
source_map(abbrev) ==
    CASE abbrev = "WE" -> "Wine Enthusiast"
      [] abbrev = "WS" -> "Wine Spectator"
      [] abbrev = "WA" -> "Wine Advocate"
      [] abbrev = "RP" -> "Wine Advocate"
      [] abbrev = "JD" -> "Jeb Dunnuck"
      [] abbrev = "JS" -> "James Suckling"
      [] abbrev = "AG" -> "Antonio Galloni"
      [] abbrev = "V" -> "Vinous"
      [] OTHER -> "unknown"

\* the publication named in a .feedback-body.award text
AwardSource(text_lower) ==
    IF "spectator" \in text_lower THEN "Wine Spectator"
    ELSE IF "advocate" \in text_lower \/ "parker" \in text_lower THEN "Wine Advocate"
    ELSE IF "enthusiast" \in text_lower THEN "Wine Enthusiast"
    ELSE IF "vinous" \in text_lower \/ "galloni" \in text_lower THEN "Vinous"
    ELSE IF "suckling" \in text_lower THEN "James Suckling"
    ELSE IF "dunnuck" \in text_lower THEN "Jeb Dunnuck"
    ELSE "unknown"

\* append each candidate whose source is not in seen_sources yet
RECURSIVE FirstPerSource(_, _)
FirstPerSource(candidates, scores) ==
    IF candidates = <<>> THEN scores
    ELSE LET c == Head(candidates)
             seen_sources == {scores[i].source : i \in DOMAIN scores}
         IN  FirstPerSource(Tail(candidates),
                            IF c.source \in seen_sources THEN scores
                            ELSE Append(scores, c))

\* Method 1: the compact feedback items; Method 2, only when Method 1 found
\* nothing: the award texts
WineSpiesScores(items, awards) ==
    LET hits1 == SelectSeq(items, LAMBDA it : it.fname /\ it.fbody /\ it.has_number
                                              /\ ScoreInRange(it.number))
        cands1 == [i \in DOMAIN hits1 |->
                    [score |-> hits1[i].number, source |-> source_map(hits1[i].abbrev)]]
        scores1 == FirstPerSource(cands1, <<>>)
        hits2 == SelectSeq(awards, LAMBDA a : a.has_number /\ ScoreInRange(a.number))
        cands2 == [i \in DOMAIN hits2 |->
                    [score |-> hits2[i].number, source |-> AwardSource(hits2[i].text_lower)]]
    IN  IF scores1 # <<>> THEN scores1 ELSE FirstPerSource(cands2, <<>>)

scrape_winespies(page) ==
    IF page.fetch # "ok" THEN Returned(<<>>, page.fetch)
    ELSE IF ~page.name_el.present THEN Returned(<<>>, "")
    ELSE
      LET name == get_text(page.name_el)
          p == IF page.price_el.present
               THEN ParseFloat(CleanNumber(get_text(page.price_el)))
               ELSE [ok |-> TRUE, cents |-> 0]
          o == IF page.orig_el.present
               THEN ParseFloat(CleanNumber(get_text(page.orig_el)))
               ELSE [ok |-> TRUE, cents |-> 0]
      IN  IF ~p.ok \/ ~o.ok THEN Returned(<<>>, "ValueError")
          ELSE
            LET price == p.cents
                orig_price == o.cents
                discount == IF orig_price > 0 /\ price > 0
                            THEN DiscountOf(price, orig_price) ELSE 0
                scores == WineSpiesScores(page.items, page.awards)
            IN  IF matches_preferences(name, price, orig_price, ScoresOrNone(scores))
                THEN Returned(<<NewDeal(name, price, orig_price, discount,
                                        "https://www.winespies.com",
                                        SourceWineSpies, scores)>>, "")
                ELSE Returned(<<>>, "")

(*********************** inputs of the pure functions ***********************)
\* names for matches_preferences: "zin" is the one keyword these can contain
MatchChars == {"z", "i", "n", "Z", " "}
MatchNames == SeqsUpTo(MatchChars, MaxMatchNameLen)
\* cents; with an original of 4000: 2780 is 30.5%, 2800 is 30%, 2820 is 29.5%,
\* 2830 is 29.25%, 2860 is 28.5%
MatchPrices == {0, 2780, 2800, 2820, 2830, 2860, 5950, 6000, 6001}
MatchOriginals == {-100, 0, 4000, 8500}
Score(v, src) == [score |-> v, source |-> src]
MatchScores ==
    {NoneScores, ListScores(<<>>),
     ListScores(<<Score(91, "Wine Spectator")>>),
     ListScores(<<Score(92, "unknown")>>),
     ListScores(<<Score(91, "Wine Advocate"), Score(95, "Vinous")>>),
     ListScores(<<Score(80, "unknown"), Score(91, "Wine Spectator")>>)}

\* names for wine_key
KeyChars == {"a", "A", " ", "|"}
KeyNames == SeqsUpTo(KeyChars, MaxKeyNameLen)

\* page fragments for the extractors
Zin == <<"Z", "i", "n">>
PaddedZin == <<" ", "z", "i", "n", " ">>
Port == <<"P", "o", "r", "t">>
NameEls == {NoEl, El(Zin), El(PaddedZin), El(Port), El(<<>>)}
PriceEls == {NoEl, El(<<"$", "2", "8">>), El(<<"$", "4", "0", ".", "0", "0">>),
             El(<<"$", "6", "1">>), El(<<"$", "0">>), El(<<"S", "o", "l", "d">>),
             El(<<"1", ".", "2", ".", "3">>)}
OrigEls == {NoEl, El(<<"$", "4", "0">>), El(<<"$", "8", "0", ".", "0", "0">>),
            El(<<"$", "0">>), El(<<"4", ".", ".">>)}
Fetches == {"ok", "ConnectionError"}

WtsoMatch(abbrev, low, has_high, high) ==
    [matched |-> TRUE, abbrev |-> abbrev, low |-> low, has_high |-> has_high, high |-> high]
WtsoNoMatch == [matched |-> FALSE, abbrev |-> "", low |-> 0, has_high |-> FALSE, high |-> 0]
WtsoDescriptions ==
    {<<>>, <<WtsoNoMatch>>, <<WtsoMatch("WS", 91, FALSE, 0)>>,
     <<WtsoMatch("WA", 90, TRUE, 93), WtsoMatch("XX", 101, FALSE, 0)>>}
WtsoPages ==
    [fetch : Fetches, offer : BOOLEAN, name_el : NameEls, price_el : PriceEls,
     orig_el : OrigEls, show_description : WtsoDescriptions]

PJsonAbsent == [kind |-> "absent", title |-> <<>>, variants |-> <<>>]
PJsonInvalid == [kind |-> "invalid", title |-> <<>>, variants |-> <<>>]
PJsonNonRecord == [kind |-> "nonrecord", title |-> <<>>, variants |-> <<>>]
PJsons ==
    {PJsonAbsent, PJsonInvalid, PJsonNonRecord}
    \cup [kind : {"ok"}, title : {<<>>, Zin, PaddedZin},
          variants : {<<>>, <<0>>, <<2800>>, <<6100, 2800>>}]
Div25Retail == <<"$", "2", "5", " ", "R", "E", "T", "A", "I", "L">>
Div40Retail == <<"$", "4", "0", " ", "R", "E", "T", "A", "I", "L">>
DivRetail == <<"R", "E", "T", "A", "I", "L">>
Div15LastBottle == <<"$", "1", "5", " ", "L", "A", "S", "T", " ", "B", "O", "T", "T", "L", "E">>
DivBadLastBottle == <<"1", ".", ".", "L", "A", "S", "T", " ", "B", "O", "T", "T", "L", "E">>
PriceDivs ==
    {<<>>, <<Div25Retail, Div15LastBottle>>, <<Div40Retail>>, <<Div15LastBottle>>,
     <<DivRetail, Div40Retail, Div15LastBottle>>, <<Div40Retail, DivBadLastBottle>>}
Review(score_el, has_number, number, review_text) ==
    [score_el |-> score_el, has_number |-> has_number, number |-> number,
     review_text |-> review_text]
Reviews ==
    {<<>>, <<Review(TRUE, TRUE, 94, {"robert parker"})>>,
     <<Review(FALSE, FALSE, 0, {}), Review(TRUE, TRUE, 90, {"ws "}),
       Review(TRUE, FALSE, 0, {"vinous"})>>}
LastBottlePages ==
    [fetch : Fetches, name_el : NameEls, pjson : PJsons, price_divs : PriceDivs,
     reviews : Reviews]

Item(fname, fbody, abbrev, has_number, number) ==
    [fname |-> fname, fbody |-> fbody, abbrev |-> abbrev, has_number |-> has_number,
     number |-> number]
Award(has_number, number, text_lower) ==
    [has_number |-> has_number, number |-> number, text_lower |-> text_lower]
Items ==
    {<<>>, <<Item(TRUE, TRUE, "WS", TRUE, 90), Item(TRUE, TRUE, "WS", TRUE, 95)>>,
     <<Item(TRUE, FALSE, "WE", FALSE, 0), Item(TRUE, TRUE, "RP", TRUE, 93)>>}
Awards ==
    {<<>>, <<Award(TRUE, 94, {"enthusiast"})>>,
     <<Award(TRUE, 79, {"parker"}), Award(FALSE, 0, {}), Award(TRUE, 91, {"dunnuck"})>>}
WineSpiesPages ==
    [fetch : Fetches, name_el : NameEls, price_el : PriceEls, orig_el : OrigEls,
     items : Items, awards : Awards]

(***************************** dedup record ********************************)
\* datetime.now().strftime("%Y-%m-%d") for the day numbers of the model
DayNames == <<"2024-12-30", "2024-12-31", "2025-01-01", "2025-01-02", "2025-01-03">>
strftime(day) == DayNames[day]

\* a JSON value found under "wines", or handed back by load_notified():
\* a list of keys, or a value of another type
ListOf(keys) == [t |-> "list", items |-> keys, str |-> <<>>]
NullValue == [t |-> "null", items |-> <<>>, str |-> <<>>]
NumberValue == [t |-> "number", items |-> <<>>, str |-> <<>>]
StringValue(chars) == [t |-> "string", items |-> <<>>, str |-> chars]
ObjectValue(keys) == [t |-> "object", items |-> keys, str |-> <<>>]
Missing == [t |-> "missing", items |-> <<>>, str |-> <<>>]

\* notified.json: no file ("absent"), a file that cannot be opened or decoded
\* ("unreadable"), text that is no JSON, such as an empty file ("malformed"),
\* JSON that is no object ("nonrecord"), or an object with its "date" and
\* "wines" members ("None" and Missing where the member is not there)
OtherFile(kind) == [kind |-> kind, date |-> "None", wines |-> Missing]
RecordFile(date, wines) == [kind |-> "record", date |-> date, wines |-> wines]

Loaded(value) == [raised |-> FALSE, value |-> value]
Raised == [raised |-> TRUE, value |-> ListOf(<<>>)]

load_notified_nothing(file, now) ==
    IF file.kind \in {"unreadable", "nonrecord"} THEN Raised ELSE Loaded(ListOf(<<>>))

load_notified(file, now) ==
    LET today_str == strftime(now)
    IN  CASE file.kind = "absent" -> Loaded(ListOf(<<>>))         \* FileNotFoundError
          [] file.kind = "malformed" -> Loaded(ListOf(<<>>))      \* JSONDecodeError
          [] file.kind = "unreadable" -> Raised      \* PermissionError, UnicodeDecodeError
          [] file.kind = "nonrecord" -> Raised       \* AttributeError: no .get
          [] file.kind = "record" ->
                IF file.date = today_str
                THEN Loaded(IF file.wines.t = "missing" THEN ListOf(<<>>) ELSE file.wines)
                ELSE Loaded(ListOf(<<>>))

save_notified(wine_keys, now) == RecordFile(strftime(now), wine_keys)

\* `key not in already_notified`; ok is FALSE where it raises TypeError
NotIn(key, value) ==
    CASE value.t \in {"list", "object"} -> [ok |-> TRUE, val |-> key \notin Range(value.items)]
      [] value.t = "string" -> [ok |-> TRUE, val |-> ~Contains(key, value.str)]
      [] OTHER -> [ok |-> FALSE, val |-> FALSE]

(******************************* notifier **********************************)
AllSet(creds) == creds.GMAIL_USER /\ creds.GMAIL_PASS /\ creds.PHONE_SMS

SmsResult(name, status, error) == [name |-> name, status |-> status, error |-> error]

\* what the SMTP exchange for one message does
SmtpOutcomes == {"accepted", "refused", "SMTPRecipientsRefused",
                 "SMTPAuthenticationError", "Exception"}

Delivery(deal, outcome) ==
    CASE outcome = "accepted" -> SmsResult(deal.name, "DELIVERED TO GATEWAY", "")
      [] outcome = "refused" -> SmsResult(deal.name, "REJECTED", "refused")
      [] outcome = "SMTPRecipientsRefused" ->
            SmsResult(deal.name, "RECIPIENT REFUSED", outcome)
      [] outcome = "SMTPAuthenticationError" -> SmsResult(deal.name, "AUTH FAILED", outcome)
      [] OTHER -> SmsResult(deal.name, "SMTP ERROR", outcome)

\* smtp[i] is the outcome of the i-th SMTP exchange
send_sms(deals, creds, smtp) ==
    IF ~AllSet(creds)
    THEN [i \in DOMAIN deals |-> SmsResult(deals[i].name, "SKIPPED", "credentials not set")]
    ELSE [i \in 1..Min(3, Len(deals)) |-> Delivery(deals[i], smtp[i])]

(******************************** run log **********************************)
SiteNames == <<"WTSO", "Last Bottle", "Wine Spies">>

SiteStatus(result) ==
    IF result.error # "" THEN [status |-> "ERROR", matches |-> 0, error |-> result.error]
    ELSE IF result.matches > 0
         THEN [status |-> "match(es)", matches |-> result.matches, error |-> ""]
    ELSE [status |-> "no matches", matches |-> 0, error |-> ""]

write_run_log(ts, results, deals, sms_target, sms) ==
    [last_run |-> ts,
     sites |-> [s \in Range(SiteNames) |-> SiteStatus(results[s])],
     notified |-> [i \in DOMAIN deals |->
                     [source |-> deals[i].source, name |-> deals[i].name,
                      price |-> deals[i].price, discount |-> deals[i].discount]],
     gateway |-> IF deals # <<>> THEN sms_target ELSE "(none this run)",
     sms |-> IF deals # <<>> THEN sms ELSE <<>>]

NoLog == [last_run |-> 0, sites |-> <<>>, notified |-> <<>>, gateway |-> "", sms |-> <<>>]

(******************************** ranking **********************************)
\* put deal behind every deal whose discount is at least its own
RECURSIVE InsertByDiscount(_, _)
InsertByDiscount(sorted, deal) ==
    IF sorted = <<>> THEN <<deal>>
    ELSE IF Head(sorted).discount >= deal.discount
         THEN <<Head(sorted)>> \o InsertByDiscount(Tail(sorted), deal)
    ELSE <<deal>> \o sorted

RECURSIVE Reverse(_)
Reverse(s) == IF s = <<>> THEN <<>> ELSE Reverse(Tail(s)) \o <<Head(s)>>

RECURSIVE SortAscending(_)
SortAscending(deals) ==
    IF deals = <<>> THEN <<>>
    ELSE LET rest == SortAscending(SubSeq(deals, 1, Len(deals) - 1))
             last == deals[Len(deals)]
             before == SelectSeq(rest, LAMBDA d : d.discount <= last.discount)
             after == SelectSeq(rest, LAMBDA d : d.discount > last.discount)
         IN  before \o <<last>> \o after

\* sort ascending, then reverse: equal discounts come out in reverse order
sort_then_reverse(deals) == Reverse(SortAscending(deals))

\* all_deals.sort(key=lambda x: x.get("discount", 0), reverse=True): stable
RECURSIVE InsertAll(_, _)
InsertAll(sorted, deals) ==
    IF deals = <<>> THEN sorted
    ELSE InsertAll(InsertByDiscount(sorted, Head(deals)), Tail(deals))

sort_by_discount(deals) == InsertAll(<<>>, deals)

(************************* inputs of the pipeline **************************)
WtsoPage(fetch, offer, name_el, price_el, orig_el, show_description) ==
    [fetch |-> fetch, offer |-> offer, name_el |-> name_el, price_el |-> price_el,
     orig_el |-> orig_el, show_description |-> show_description]
LastBottlePage(fetch, name_el, pjson, price_divs, reviews) ==
    [fetch |-> fetch, name_el |-> name_el, pjson |-> pjson, price_divs |-> price_divs,
     reviews |-> reviews]
WineSpiesPage(fetch, name_el, price_el, orig_el, items, awards) ==
    [fetch |-> fetch, name_el |-> name_el, price_el |-> price_el, orig_el |-> orig_el,
     items |-> items, awards |-> awards]

\* the pages a run can meet: a failure, or an offer (30% off at WTSO and
\* Last Bottle, 65% off at Wine Spies)
RunWtsoPages ==
    {WtsoPage("ConnectionError", FALSE, NoEl, NoEl, NoEl, <<>>),
     WtsoPage("ok", TRUE, El(Zin), El(<<"$", "2", "8">>), El(<<"$", "4", "0">>),
              <<WtsoMatch("WA", 90, TRUE, 93)>>)}
RunLastBottlePages ==
    {LastBottlePage("ok", NoEl, PJsonNonRecord, <<>>, <<>>),
     LastBottlePage("ok", NoEl, [kind |-> "ok", title |-> PaddedZin, variants |-> <<2800>>],
                    <<Div40Retail>>, <<>>)}
RunWineSpiesPages ==
    {WineSpiesPage("Timeout", NoEl, NoEl, NoEl, <<>>, <<>>),
     WineSpiesPage("ok", El(Zin), El(<<"$", "2", "8">>),
                   El(<<"$", "8", "0", ".", "0", "0">>), <<>>, <<>>)}

KeyOf(name, source) == wine_key([name |-> name, source |-> source])

StaleDate == "2024-12-29"
InitFiles ==
    {OtherFile("absent"), OtherFile("unreadable"), OtherFile("malformed"),
     OtherFile("nonrecord"),
     RecordFile(StaleDate, ListOf(<<KeyOf(Zin, SourceWTSO)>>))}
    \cup {RecordFile(strftime(1), w) :
            w \in {Missing, ListOf(<<KeyOf(Zin, SourceWTSO)>>), NullValue,
                   StringValue(<<"x">>)}}

Credentials(user, pass, phone) ==
    [GMAIL_USER |-> user, GMAIL_PASS |-> pass, PHONE_SMS |-> phone]
CredentialSets ==
    {Credentials(TRUE, TRUE, TRUE), Credentials(TRUE, TRUE, FALSE)}

SmtpRuns ==
    {<<"accepted", "refused", "SMTPRecipientsRefused">>,
     <<"SMTPAuthenticationError", "Exception", "accepted">>}

(********************************* main ************************************)
NoCall == [fn |-> "none"]

NewSiteResults == [s \in Range(SiteNames) |-> [matches |-> 0, error |-> ""]]

Init ==
    /\ today = 1
    /\ notified_file \in InitFiles
    /\ init_file = notified_file
    /\ credentials \in CredentialSets
    /\ pc = "idle"
    /\ run = 0
    /\ site_results = NewSiteResults
    /\ site_failed = {}
    /\ scraped = <<>>
    /\ all_deals = <<>>
    /\ already_notified = ListOf(<<>>)
    /\ new_deals = <<>>
    /\ sms_results = <<>>
    /\ handed = {}
    /\ rehanded = {}
    /\ last_run = NoLog
    /\ timestamp = 0
    /\ fn_call = NoCall
    /\ fn_ret = NoCall

\* the calendar day changes.  The steps that read the clock are StartRun,
\* Dedup and Notify, so a change during a run is taken right before one of
\* them; the day of a hand-over is the day save_notified() reads
Tick ==
    /\ today < MaxDay
    /\ pc \in {"idle", "dedup", "notify"}
    /\ today' = today + 1
    /\ UNCHANGED <<notified_file, init_file, credentials, pc, run, site_results,
                   site_failed, scraped, all_deals, already_notified, new_deals,
                   sms_results, handed, rehanded, last_run, timestamp,
                   fn_call, fn_ret>>

\* the scheduler invokes main(): lines 445-455
StartRun ==
    /\ pc = "idle"
    /\ run < MaxRuns
    /\ run' = run + 1
    /\ timestamp' = today
    /\ pc' = "scrape_wtso"
    /\ UNCHANGED <<today, notified_file, init_file, credentials, site_results,
                   site_failed, scraped, all_deals, already_notified, new_deals,
                   sms_results, handed, rehanded, last_run, fn_call, fn_ret>>

\* one turn of the loop over the scrapers: lines 456-464
MainScrape(site, r, next) ==
    /\ IF r.raised
       THEN /\ site_results' = [site_results EXCEPT ![site].error = r.error]
            /\ UNCHANGED all_deals
       ELSE /\ site_results' = [site_results EXCEPT ![site].matches = Len(r.deals)]
            /\ all_deals' = all_deals \o r.deals
    /\ scraped' = scraped \o r.deals
    /\ site_failed' = IF r.error # "" THEN site_failed \cup {site} ELSE site_failed
    /\ pc' = next
    /\ UNCHANGED <<today, notified_file, init_file, credentials, run, already_notified,
                   new_deals, sms_results, handed, rehanded, last_run, timestamp,
                   fn_call, fn_ret>>

ScrapeWtso ==
    /\ pc = "scrape_wtso"
    /\ \E page \in RunWtsoPages : MainScrape("WTSO", scrape_wtso(page), "scrape_lastbottle")

ScrapeLastBottle ==
    /\ pc = "scrape_lastbottle"
    /\ \E page \in RunLastBottlePages :
          MainScrape("Last Bottle", scrape_lastbottle(page), "scrape_winespies")

ScrapeWineSpies ==
    /\ pc = "scrape_winespies"
    /\ \E page \in RunWineSpiesPages :
          MainScrape("Wine Spies", scrape_winespies(page), "dedup")

\* sort, load_notified() and the filter: lines 467-471.  The run dies where
\* load_notified() or the membership test raises.
Dedup ==
    /\ pc = "dedup"
    /\ LET sorted == sort_by_discount(all_deals)
           l == load_notified(notified_file, today)
           tests == [i \in DOMAIN sorted |-> NotIn(wine_key(sorted[i]), l.value)]
       IN  /\ all_deals' = sorted
           /\ IF l.raised
              THEN /\ pc' = "crashed"
                   /\ UNCHANGED <<already_notified, new_deals>>
              ELSE /\ already_notified' = l.value
                   /\ IF \E i \in DOMAIN tests : ~tests[i].ok
                      THEN /\ pc' = "crashed"
                           /\ UNCHANGED new_deals
                      ELSE /\ new_deals' =
                                SelectSeq(sorted,
                                          LAMBDA d : NotIn(wine_key(d), l.value).val)
                           /\ pc' = IF new_deals' # <<>> THEN "notify" ELSE "log"
    /\ UNCHANGED <<today, notified_file, init_file, credentials, run, site_results,
                   site_failed, scraped, sms_results, handed, rehanded, last_run, timestamp, fn_call, fn_ret>>

\* the branch for new deals: lines 474-484.  send_sms(new_deals), then
\* already_notified.extend(...) and save_notified(already_notified); only a
\* list has extend, and the run dies on any other value
Notify ==
    /\ pc = "notify"
    /\ \E smtp \in SmtpRuns : sms_results' = send_sms(new_deals, credentials, smtp)
    /\ LET now == [i \in DOMAIN new_deals |->
                      [day |-> today, key |-> wine_key(new_deals[i])]]
       IN  /\ handed' = handed \cup Range(now)
           /\ rehanded' = rehanded \cup
                  {h \in Range(now) :
                      \/ h \in handed
                      \/ \E i, j \in DOMAIN now : i # j /\ now[i] = h /\ now[j] = h}
    /\ IF already_notified.t = "list"
       THEN /\ already_notified' =
                 ListOf(already_notified.items
                        \o [i \in DOMAIN new_deals |-> wine_key(new_deals[i])])
            /\ notified_file' = save_notified(already_notified', today)
            /\ pc' = "log"
       ELSE /\ pc' = "crashed"
            /\ UNCHANGED <<already_notified, notified_file>>
    /\ UNCHANGED <<today, init_file, credentials, run, site_results, site_failed,
                   scraped, all_deals, new_deals, last_run, timestamp,
                   fn_call, fn_ret>>

\* write_run_log(...): line 491
Log ==
    /\ pc = "log"
    /\ last_run' = write_run_log(timestamp, site_results, new_deals,
                                 IF credentials.PHONE_SMS THEN "PHONE_SMS" ELSE "",
                                 sms_results)
    /\ pc' = "done"
    /\ UNCHANGED <<today, notified_file, init_file, credentials, run, site_results,
                   site_failed, scraped, all_deals, already_notified, new_deals,
                   sms_results, handed, rehanded, timestamp, fn_call, fn_ret>>

\* the process ends, by returning from main() or by the uncaught exception,
\* and its memory is gone
Exit ==
    /\ pc \in {"done", "crashed"}
    /\ pc' = "idle"
    /\ site_results' = NewSiteResults
    /\ site_failed' = {}
    /\ scraped' = <<>>
    /\ all_deals' = <<>>
    /\ already_notified' = ListOf(<<>>)
    /\ new_deals' = <<>>
    /\ sms_results' = <<>>
    /\ last_run' = NoLog
    /\ timestamp' = 0
    /\ UNCHANGED <<today, notified_file, init_file, credentials, run, handed, rehanded,
                   fn_call, fn_ret>>

Next ==
    \/ Tick
    \/ StartRun
    \/ ScrapeWtso
    \/ ScrapeLastBottle
    \/ ScrapeWineSpies
    \/ Dedup
    \/ Notify
    \/ Log
    \/ Exit

Spec == Init /\ [][Next]_vars

(******************** the pure functions, one call each ********************)
InitFn ==
    /\ today = 1
    /\ notified_file = OtherFile("absent")
    /\ init_file = notified_file
    /\ credentials = Credentials(FALSE, FALSE, FALSE)
    /\ pc = "idle"
    /\ run = 0
    /\ site_results = NewSiteResults
    /\ site_failed = {}
    /\ scraped = <<>>
    /\ all_deals = <<>>
    /\ already_notified = ListOf(<<>>)
    /\ new_deals = <<>>
    /\ sms_results = <<>>
    /\ handed = {}
    /\ rehanded = {}
    /\ last_run = NoLog
    /\ timestamp = 0
    /\ fn_call = NoCall
    /\ fn_ret = NoCall

CallMatchesPreferences ==
    /\ fn_call = NoCall
    /\ \E name \in MatchNames, price \in MatchPrices, original_price \in MatchOriginals,
          scores \in MatchScores :
          /\ fn_call' = [fn |-> "matches_preferences", name |-> name, price |-> price,
                         original_price |-> original_price, scores |-> scores]
          /\ fn_ret' = [fn |-> "matches_preferences",
                        value |-> matches_preferences(name, price, original_price, scores)]
    /\ UNCHANGED pipeline_vars

CallWineKey ==
    /\ fn_call = NoCall
    /\ \E n1 \in KeyNames, n2 \in KeyNames, s1 \in Sources, s2 \in Sources :
          LET d1 == [name |-> n1, source |-> s1]
              d2 == [name |-> n2, source |-> s2]
          IN  /\ fn_call' = [fn |-> "wine_key", d1 |-> d1, d2 |-> d2]
              /\ fn_ret' = [fn |-> "wine_key", key1 |-> wine_key(d1), key2 |-> wine_key(d2)]
    /\ UNCHANGED pipeline_vars

CallScrapeWtso ==
    /\ fn_call = NoCall
    /\ \E page \in WtsoPages :
          /\ fn_call' = [fn |-> "scrape_wtso", page |-> page]
          /\ fn_ret' = [fn |-> "scrape_wtso", deals |-> scrape_wtso(page).deals,
                        error |-> scrape_wtso(page).error]
    /\ UNCHANGED pipeline_vars

CallScrapeLastBottle ==
    /\ fn_call = NoCall
    /\ \E page \in LastBottlePages :
          /\ fn_call' = [fn |-> "scrape_lastbottle", page |-> page]
          /\ fn_ret' = [fn |-> "scrape_lastbottle", deals |-> scrape_lastbottle(page).deals,
                        error |-> scrape_lastbottle(page).error]
    /\ UNCHANGED pipeline_vars

CallScrapeWineSpies ==
    /\ fn_call = NoCall
    /\ \E page \in WineSpiesPages :
          /\ fn_call' = [fn |-> "scrape_winespies", page |-> page]
          /\ fn_ret' = [fn |-> "scrape_winespies", deals |-> scrape_winespies(page).deals,
                        error |-> scrape_winespies(page).error]
    /\ UNCHANGED pipeline_vars

NextFn ==
    \/ CallMatchesPreferences
    \/ CallWineKey
    \/ CallScrapeWtso
    \/ CallScrapeLastBottle
    \/ CallScrapeWineSpies

SpecFn == InitFn /\ [][NextFn]_vars

(******************************* properties ********************************)
\* a record without keys, an empty file, or no file at all
EmptyOrAbsent(file) ==
    \/ file.kind \in {"absent", "malformed"}
    \/ /\ file.kind = "record"
       /\ file.wines.t \in {"missing", "list"}
       /\ file.wines.items = <<>>

Handed(deal) == [day |-> today, key |-> wine_key(deal)]

\* C1: starting from an empty or absent dedup record, a deal whose key an
\* earlier run of the same day handed to send_sms is not in new_deals, and
\* no key is handed to send_sms twice on one day, however many runs follow
\* one another.
NoRepeatNotification ==
    EmptyOrAbsent(init_file) =>
        /\ rehanded = {}
        /\ pc = "notify" => \A i \in DOMAIN new_deals : Handed(new_deals[i]) \notin handed

\* the second run of a day meets a deal the first run handed over, and
\* finds nothing new
SecondRunSuppresses ==
    /\ EmptyOrAbsent(init_file)
    /\ run = 2
    /\ pc = "log"
    /\ new_deals = <<>>
    /\ \E i \in DOMAIN all_deals : Handed(all_deals[i]) \in handed

\* a well-formed record: an object whose "wines" member is a list
WellFormed(file) == file.kind = "record" /\ file.wines.t = "list"

\* C2: load_notified() hands back the stored keys exactly when the record is
\* well-formed and dated today; in every other case it hands back the empty
\* list and the run goes on without an error.
LoadFailsOpen ==
    [][pc = "dedup" /\ pc' # "dedup" =>
          /\ pc' # "crashed"
          /\ already_notified' =
                IF WellFormed(notified_file) /\ notified_file.date = strftime(today)
                THEN notified_file.wines
                ELSE ListOf(<<>>)]_vars

IsScraperCall == fn_call.fn \in {"scrape_wtso", "scrape_lastbottle", "scrape_winespies"}

\* C4: every deal an extractor emits has discount = round((1 - price /
\* original) * 100) when original > 0, and discount = 0 exactly when
\* original is 0, whatever the parsed price, 0 included.
DiscountDerived ==
    IsScraperCall =>
        \A i \in DOMAIN fn_ret.deals :
            LET d == fn_ret.deals[i]
            IN  /\ d.original > 0 => d.discount = DiscountOf(d.price, d.original)
                /\ d.discount = 0 <=> d.original = 0

EqualIgnoringCase(a, b) == Lower(a) = Lower(b)
EqualIgnoringCaseAndOuterSpace(a, b) == Lower(Strip(a)) = Lower(Strip(b))

\* C5: two deals have the same key exactly when their names are equal
\* ignoring case and leading and trailing whitespace and their sources are
\* equal ignoring case.
KeyEqualIff ==
    fn_call.fn = "wine_key" =>
        (fn_ret.key1 = fn_ret.key2 <=>
            /\ EqualIgnoringCaseAndOuterSpace(fn_call.d1.name, fn_call.d2.name)
            /\ EqualIgnoringCase(fn_call.d1.source, fn_call.d2.source))

\* two names that differ, one padded and with a "|" in it, with one key
SameKeyDifferentNames ==
    /\ fn_call.fn = "wine_key"
    /\ fn_call.d1.name # fn_call.d2.name
    /\ Len(fn_call.d1.name) > Len(fn_call.d2.name)
    /\ "|" \in Range(fn_call.d1.name)
    /\ fn_ret.key1 = fn_ret.key2

Orderings(n) == {p \in [1..n -> 1..n] : \A i, j \in 1..n : i # j => p[i] # p[j]}

\* ranked is input in descending order of discount, equal discounts in
\* their order in input
IsStableRanking(ranked, input) ==
    /\ Len(ranked) = Len(input)
    /\ \E p \in Orderings(Len(input)) :
          /\ \A i \in DOMAIN ranked : ranked[i] = input[p[i]]
          /\ \A i, j \in DOMAIN ranked :
                i < j => \/ ranked[i].discount > ranked[j].discount
                         \/ ranked[i].discount = ranked[j].discount /\ p[i] < p[j]

\* C6: the ranked list is the concatenation of the extractors' outputs in
\* descending order of discount, ties in input order; new_deals keeps that
\* order, and delivery is attempted for its first 3 deals and no other.
RankedAndTopThree ==
    /\ pc \in {"notify", "log", "done", "crashed"} => IsStableRanking(all_deals, scraped)
    /\ pc \in {"log", "done"} =>
          /\ new_deals = SelectSeq(all_deals, LAMBDA d : d \in Range(new_deals))
          /\ LET attempts == SelectSeq(sms_results, LAMBDA r : r.status # "SKIPPED")
             IN  IF new_deals # <<>> /\ AllSet(credentials)
                 THEN /\ Len(attempts) = Min(3, Len(new_deals))
                      /\ \A i \in DOMAIN attempts : attempts[i].name = new_deals[i].name
                 ELSE attempts = <<>>

\* three deals, two of them with the same discount, ranked into another
\* order than they came in, each one attempted
TieRankedAndDelivered ==
    /\ pc = "done"
    /\ Len(all_deals) = 3
    /\ all_deals # scraped
    /\ all_deals[2].discount = all_deals[3].discount
    /\ Len(new_deals) = 3
    /\ Len(sms_results) = 3
    /\ \A i \in DOMAIN sms_results : sms_results[i].status # "SKIPPED"

\* C7: every run writes the run log, whatever fails on the way.
RunLogAlwaysWritten == pc \in {"done", "crashed"} => last_run # NoLog

\* C8: when the extraction of a site fails, the other sites are still
\* scraped and the run log shows that site's error.
SiteFailureRecorded ==
    /\ \A s \in site_failed : site_results[s].error # ""
    /\ pc = "done" => \A s \in site_failed : last_run.sites[s].status = "ERROR"

NameAbsent ==
    CASE fn_call.fn = "scrape_lastbottle" ->
            /\ ~fn_call.page.name_el.present
            /\ ~(fn_call.page.pjson.kind = "ok" /\ fn_call.page.pjson.title # <<>>)
      [] OTHER -> ~fn_call.page.name_el.present

SalePriceAbsent ==
    CASE fn_call.fn = "scrape_lastbottle" ->
            /\ ~(fn_call.page.pjson.kind = "ok" /\ fn_call.page.pjson.variants # <<>>)
            /\ ~FirstWith(fn_call.page.price_divs, LAST_BOTTLE).present
      [] OTHER -> ~fn_call.page.price_el.present

\* C9: an extractor emits no deal for a listing whose name or whose
\* sale-price text is absent from the page.
NoDealWithoutNameAndPrice ==
    IsScraperCall /\ (NameAbsent \/ SalePriceAbsent) => fn_ret.deals = <<>>

\* C10: a run with new deals adds the key of every one of them to the
\* persisted record, whatever the notifier did, so that none is handed to
\* the notifier again that day.
NewKeysPersisted ==
    /\ pc \in {"log", "done", "crashed"} /\ new_deals # <<>> =>
          /\ WellFormed(notified_file)
          /\ \A i \in DOMAIN new_deals :
                wine_key(new_deals[i]) \in Range(notified_file.wines.items)
    /\ rehanded = {}

\* the keys that belong to the day written as `date`: those of the deals a
\* run found new and saved under that day, and those the record held under
\* that date before the first run
KeysOfDay(date) ==
    {h.key : h \in {x \in handed : strftime(x.day) = date}}
    \cup (IF WellFormed(init_file) /\ init_file.date = date
          THEN Range(init_file.wines.items) ELSE {})

\* C11: the persisted record stamped with day D holds only keys of deals
\* found new in runs on day D; keys loaded from a record of an earlier day
\* are never written into a record stamped with a later day, also when the
\* date changes between a run's load_notified() and its save_notified().
RecordHoldsOnlyItsDaysKeys ==
    WellFormed(notified_file) =>
        Range(notified_file.wines.items) \subseteq KeysOfDay(notified_file.date)

====
